---- MODULE Spec2Model ----
(***************************************************************************)
(* Model of the concurrent Sudoku solver of solver/game.go: Load and       *)
(* LoadSteps, Solve, the collector waitforCompletion, and the search tasks *)
(* solve / step / guessAndContinue.                                        *)
(*                                                                         *)
(* The Square and ValueSet types used by game.go live in files that are    *)
(* not part of the sources at hand; their operations are modelled from the *)
(* interface the specification gives for the grid.                         *)
(***************************************************************************)
EXTENDS Integers, Sequences, FiniteSets, TLC

SQUARE_SIZE == 9
SECTION_SIZE == 3

\* Capacity of the solution channel Solve makes.
ChanCap == 1000

\* Largest minSolutionCount a caller passes to Solve in the model.
MaxWanted == 2

Idx == 0 .. (SQUARE_SIZE - 1)
Cells == Idx \X Idx
Values == 1 .. SQUARE_SIZE

(***************************************************************************)
(* Square: a 9x9 store of optional values, 0 standing for "no value".      *)
(***************************************************************************)
NewSquare == [c \in Cells |-> 0]

Exists(sq, x, y) == x \in Idx /\ y \in Idx

Has(sq, x, y) == sq[<<x, y>>] # 0

SquareSet(sq, x, y, z) == (<<x, y>> :> z) @@ sq

SquareClear(sq, x, y) == [sq EXCEPT ![<<x, y>>] = 0]

GetRowValues(sq, x) == {sq[<<x, y>>] : y \in Idx} \ {0}

GetColumnValues(sq, y) == {sq[<<x, y>>] : x \in Idx} \ {0}

GetSectionValues(sq, x, y) ==
    LET bx == (x \div SECTION_SIZE) * SECTION_SIZE
        by == (y \div SECTION_SIZE) * SECTION_SIZE
    IN  {sq[<<r, c>>] : r \in bx .. (bx + SECTION_SIZE - 1),
                        c \in by .. (by + SECTION_SIZE - 1)} \ {0}

IsAllowed(sq, x, y, z) ==
    z \notin (GetRowValues(sq, x) \cup GetColumnValues(sq, y)
                \cup GetSectionValues(sq, x, y))

(***************************************************************************)
(* Game                                                                    *)
(***************************************************************************)
NoChannel == 0
NoDeadline == 0

Step(x, y, z, initial, isGuess) ==
    [X |-> x, Y |-> y, Z |-> z, Initial |-> initial, IsGuess |-> isGuess]

newGame ==
    [CellsToBeSolved |-> 0, GuessCount |-> 0, Steps |-> <<>>,
     square |-> NewSquare, solutionChannel |-> NoChannel,
     deadline |-> NoDeadline]

\* copy without line 48: the copy is left with the zero deadline.
copyNoDeadline(g) ==
    [g EXCEPT !.deadline = NoDeadline,
              !.Steps = [k \in 1 .. Len(g.Steps) |->
                            Step(g.Steps[k].X, g.Steps[k].Y, g.Steps[k].Z,
                                 FALSE, FALSE)]]

\* copy keeps the coordinates and value of every step; the two flags of the
\* copied steps are left at their zero value.
copy(g) ==
    [g EXCEPT !.Steps = [k \in 1 .. Len(g.Steps) |->
                            Step(g.Steps[k].X, g.Steps[k].Y, g.Steps[k].Z,
                                 FALSE, FALSE)]]

set(g, x, y, z, initial, isGuess) ==
    [g EXCEPT !.square = SquareSet(g.square, x, y, z),
              !.Steps = Append(g.Steps, Step(x, y, z, initial, isGuess)),
              !.GuessCount = IF isGuess THEN g.GuessCount + 1 ELSE g.GuessCount]

countEmptyValues(g) ==
    Cardinality({c \in Cells : ~Has(g.square, c[1], c[2])})

mergeValues(rowValues, columnValues, sectionValues) ==
    (rowValues \cup columnValues) \cup sectionValues

\* makeFull without the value 9.
makeFullShort == 1 .. 8

makeFull == 1 .. 9

findCandidates(existing) == makeFull \ existing

\* findCandidates with the section values left out of the merge.
GameFindCandidatesNoSection(g, x, y) ==
    findCandidates(mergeValues(GetRowValues(g.square, x),
                               GetColumnValues(g.square, y), {}))

GameFindCandidates(g, x, y) ==
    findCandidates(mergeValues(GetRowValues(g.square, x),
                               GetColumnValues(g.square, y),
                               GetSectionValues(g.square, x, y)))

(***************************************************************************)
(* Text handling used by Load.  A text is a sequence of one-character      *)
(* strings.                                                                *)
(***************************************************************************)
Digits == <<"0", "1", "2", "3", "4", "5", "6", "7", "8", "9">>

DigitSet == {Digits[k] : k \in 1 .. Len(Digits)}

DigitVal(ch) == (CHOOSE k \in 1 .. Len(Digits) : Digits[k] = ch) - 1

\* strings.Split(s, sep) for a one-character separator: the pieces between
\* the separators, so n separators give n+1 pieces (possibly empty ones).
Split(s, sep) ==
    LET pos == {k \in 1 .. Len(s) : s[k] = sep}
        \* position of the j-th separator; 0 and Len(s)+1 bracket the text
        At(j) == IF j = 0 THEN 0
                 ELSE IF j > Cardinality(pos) THEN Len(s) + 1
                 ELSE CHOOSE p \in pos : Cardinality({q \in pos : q < p}) = j - 1
    IN  [j \in 1 .. Cardinality(pos) + 1 |-> SubSeq(s, At(j - 1) + 1, At(j) - 1)]

\* A numeral is a sequence of decimal digits.  TrimZeros drops its leading
\* zeros, leaving <<"0">> for zero.
RECURSIVE TrimZeros(_)
TrimZeros(s) ==
    IF Len(s) > 1 /\ Head(s) = "0" THEN TrimZeros(Tail(s)) ELSE s

\* a <= b as numbers, for numerals without leading zeros.
RECURSIVE NumeralLeq(_, _)
NumeralLeq(a, b) ==
    IF Len(a) # Len(b) THEN Len(a) < Len(b)
    ELSE IF a = <<>> THEN TRUE
    ELSE IF Head(a) # Head(b) THEN DigitVal(Head(a)) < DigitVal(Head(b))
    ELSE NumeralLeq(Tail(a), Tail(b))

\* The largest int, 2^63 - 1, and the magnitude of the smallest, 2^63 (int
\* is 64 bits wide on the platforms Go is usually built for).
MaxIntNumeral ==
    <<"9", "2", "2", "3", "3", "7", "2", "0", "3", "6",
      "8", "5", "4", "7", "7", "5", "8", "0", "7">>

MinIntNumeral ==
    <<"9", "2", "2", "3", "3", "7", "2", "0", "3", "6",
      "8", "5", "4", "7", "7", "5", "8", "0", "8">>

\* strconv.Atoi: an optional sign followed by at least one decimal digit,
\* the value within int; anything else is an error (syntax or range).  The
\* value is kept as a sign and a numeral without leading zeros, so that
\* values of any size within int are exact.
Atoi(val) ==
    LET signed == Len(val) > 0 /\ val[1] \in {"+", "-"}
        body == IF signed THEN Tail(val) ELSE val
        syntax == Len(body) > 0 /\ \A k \in 1 .. Len(body) : body[k] \in DigitSet
        minus == signed /\ val[1] = "-"
    IN  IF ~syntax THEN [ok |-> FALSE, neg |-> FALSE, mag |-> <<"0">>]
        ELSE IF ~NumeralLeq(TrimZeros(body),
                            IF minus THEN MinIntNumeral ELSE MaxIntNumeral)
          THEN [ok |-> FALSE, neg |-> FALSE, mag |-> <<"0">>]
        ELSE [ok |-> TRUE,
              neg |-> minus /\ TrimZeros(body) # <<"0">>,
              mag |-> TrimZeros(body)]

\* num < 0 || num > SQUARE_SIZE for a value Atoi returned.
OutsideSquare(a) ==
    \/ a.neg
    \/ Len(a.mag) > 1
    \/ DigitVal(a.mag[1]) > SQUARE_SIZE

\* The int of a value within 0 .. 9.
IntOf(a) == DigitVal(a.mag[1])

\* The value as %d prints it.
FormatInt(a) == (IF a.neg THEN <<"-">> ELSE <<>>) \o a.mag

(***************************************************************************)
(* Load and LoadSteps.  A result holds at most one game and at most one    *)
(* error: game = <<>> is the nil game, err = <<>> the nil error.           *)
(***************************************************************************)
LoadError(kind, row, col, actual) ==
    [game |-> <<>>,
     err |-> <<[kind |-> kind, row |-> row, col |-> col, actual |-> actual]>>]

LoadOk(game) ==
    [game |-> <<[game EXCEPT !.CellsToBeSolved = countEmptyValues(game)]>>,
     err |-> <<>>]

\* The inner loop of Load over the columns of row x, from column y on.
RECURSIVE LoadRow(_, _, _, _)
LoadRow(game, x, splitted, y) ==
    IF y >= Len(splitted) THEN [game |-> <<game>>, err |-> <<>>]
    ELSE LET val == splitted[y + 1]
             a == Atoi(val)
         IN  IF val = <<"_">>
               THEN LoadRow([game EXCEPT !.square = SquareClear(game.square, x, y)],
                            x, splitted, y + 1)
             ELSE IF ~a.ok
               THEN LoadError("Invalid value (not a number)", x + 1, y + 1, 0)
             ELSE IF OutsideSquare(a)
               THEN LoadError("Invalid value (out of range)", x + 1, y + 1,
                              FormatInt(a))
             ELSE IF ~IsAllowed(game.square, x, y, IntOf(a))
               THEN LoadError("Duplicate value", x + 1, y + 1, IntOf(a))
             ELSE LoadRow(set(game, x, y, IntOf(a), TRUE, FALSE),
                          x, splitted, y + 1)

\* The column test of line 85, as written and letting longer rows through.
WrongColumnsTooFew(splitted) == Len(splitted) < SQUARE_SIZE

WrongColumns(splitted) == Len(splitted) # SQUARE_SIZE

\* The outer loop of Load over the lines, from line x on.
RECURSIVE LoadLines(_, _, _, _)
LoadLines(game, lines, x, linesRead) ==
    IF x >= Len(lines) \/ x >= SQUARE_SIZE \/ lines[x + 1] = <<>>
      THEN IF linesRead # SQUARE_SIZE
             THEN LoadError("Not enough rows", 0, 0, linesRead)
             ELSE LoadOk(game)
    ELSE LET splitted == Split(lines[x + 1], " ")
         IN  IF WrongColumns(splitted)
               THEN LoadError("Invalid number of columns", x + 1, 0, Len(splitted))
             ELSE LET r == LoadRow(game, x, splitted, 0)
                  IN  IF r.err # <<>> THEN r
                      ELSE LoadLines(r.game[1], lines, x + 1, linesRead + 1)

Load(lines) == LoadLines(newGame, Split(lines, "\n"), 0, 0)

\* The square after the first k steps have been set, last write winning.
SquareAfter(steps, k) ==
    [c \in Cells |->
        LET on == {j \in 1 .. k : steps[j].X = c[1] /\ steps[j].Y = c[2]}
        IN  IF on = {} THEN 0
            ELSE steps[CHOOSE j \in on : \A i \in on : i <= j].Z]

\* The 0-based indices of the steps LoadSteps refuses when it reaches them.
BadOffset(steps, idx) == ~Exists(NewSquare, steps[idx + 1].X, steps[idx + 1].Y)

BadValue(steps, idx) ==
    ~IsAllowed(SquareAfter(steps, idx), steps[idx + 1].X, steps[idx + 1].Y,
               steps[idx + 1].Z)

\* LoadSteps stops at the first step it refuses; without one, every step
\* has been set, in order, and marked initial.
LoadSteps(steps) ==
    LET bad == {idx \in 0 .. Len(steps) - 1 :
                    BadOffset(steps, idx) \/ BadValue(steps, idx)}
        first == CHOOSE idx \in bad : \A j \in bad : idx <= j
    IN  IF bad # {}
          THEN IF BadOffset(steps, first)
                 THEN LoadError("Invalid offset", steps[first + 1].X,
                                steps[first + 1].Y, first)
               ELSE LoadError("Duplicate value", steps[first + 1].X,
                              steps[first + 1].Y, first)
        ELSE LoadOk([newGame EXCEPT
                       !.square = SquareAfter(steps, Len(steps)),
                       !.Steps = [k \in 1 .. Len(steps) |->
                                    Step(steps[k].X, steps[k].Y, steps[k].Z,
                                         TRUE, FALSE)]])

(***************************************************************************)
(* One Propagation Step (Game.step): a row-major sweep.                    *)
(* The result carries the game as the sweep left it and the count n of     *)
(* cells set, n = -1 for a cell without candidates.                        *)
(***************************************************************************)
\* The inner loop of step over the columns of row x, from column y on.
RECURSIVE stepRow(_, _, _, _)
stepRow(g, x, y, cellsSolved) ==
    IF y >= SQUARE_SIZE \/ cellsSolved < 0 THEN [g |-> g, n |-> cellsSolved]
    ELSE LET mergedCandidates == GameFindCandidates(g, x, y)
         IN  IF Has(g.square, x, y) THEN stepRow(g, x, y + 1, cellsSolved)
             ELSE IF Cardinality(mergedCandidates) = 0 THEN [g |-> g, n |-> -1]
             ELSE IF Cardinality(mergedCandidates) = 1
               THEN stepRow(set(g, x, y, CHOOSE z \in mergedCandidates : TRUE,
                                FALSE, FALSE),
                            x, y + 1, cellsSolved + 1)
             ELSE stepRow(g, x, y + 1, cellsSolved)

\* The outer loop of step over the rows, from row x on.
RECURSIVE stepRows(_, _, _)
stepRows(g, x, cellsSolved) ==
    IF x >= SQUARE_SIZE \/ cellsSolved < 0 THEN [g |-> g, n |-> cellsSolved]
    ELSE LET r == stepRow(g, x, 0, cellsSolved)
         IN  stepRows(r.g, x + 1, r.n)

\* step judging every empty cell against the grid as it was when the sweep
\* began.
stepFrozen(g) ==
    LET all == [k \in 1 .. SQUARE_SIZE * SQUARE_SIZE |->
                  [x |-> (k - 1) \div SQUARE_SIZE, y |-> (k - 1) % SQUARE_SIZE,
                   candidates |-> GameFindCandidates(g, (k - 1) \div SQUARE_SIZE,
                                                     (k - 1) % SQUARE_SIZE)]]
        Empty(c) == ~Has(g.square, c.x, c.y)
        Single(c) == Empty(c) /\ Cardinality(c.candidates) = 1
        singles == SelectSeq(all, Single)
        dead == \E k \in 1 .. Len(all) : Empty(all[k]) /\ all[k].candidates = {}
        Value(c) == CHOOSE z \in c.candidates : TRUE
    IN  IF dead THEN [g |-> g, n |-> -1]
        ELSE [g |-> [g EXCEPT
                       !.square = [d \in Cells |->
                                     IF \E k \in 1 .. Len(singles) :
                                          <<singles[k].x, singles[k].y>> = d
                                       THEN Value(CHOOSE c \in {singles[k] : k \in 1 .. Len(singles)} :
                                                     <<c.x, c.y>> = d)
                                     ELSE g.square[d]],
                       !.Steps = g.Steps \o
                                   [k \in 1 .. Len(singles) |->
                                      Step(singles[k].x, singles[k].y,
                                           Value(singles[k]), FALSE, FALSE)]],
              n |-> Len(singles)]

step(g) == stepRows(g, 0, 0)

(***************************************************************************)
(* findCellsWithLeastCandidates: the empty cells with more than one        *)
(* candidate, collected in row-major order and then sorted by candidate    *)
(* count with sort.Sort.  guessAndContinue uses the first cell of the      *)
(* result only, so the model keeps the set of cells that can be first.     *)
(***************************************************************************)
CellAt(g, k) ==
    LET x == (k - 1) \div SQUARE_SIZE
        y == (k - 1) % SQUARE_SIZE
    IN  [x |-> x, y |-> y, candidates |-> GameFindCandidates(g, x, y)]

CollectCells(g) ==
    LET all == [k \in 1 .. SQUARE_SIZE * SQUARE_SIZE |-> CellAt(g, k)]
        Wanted(c) == ~Has(g.square, c.x, c.y) /\ Cardinality(c.candidates) > 1
    IN  SelectSeq(all, Wanted)

Less(a, b) == Cardinality(a.candidates) < Cardinality(b.candidates)

\* The cells sort.Sort may leave at index 0: a cell no other cell is Less
\* than.  sort.Sort is not a stable sort.  Every release of the library
\* sorts up to 6 elements by insertion alone, which keeps cells of equal
\* count in the order they were collected; from 7 elements on the releases
\* differ (a gap-6 exchange pass, a pivot-based partition), so which of the
\* cells with the least number of candidates comes first is left open.
FirstAfterSort(cells) ==
    LET least == {j \in 1 .. Len(cells) :
                    \A i \in 1 .. Len(cells) : ~Less(cells[i], cells[j])}
    IN  IF Len(cells) <= 6
          THEN {cells[k] : k \in {j \in least : \A i \in least : j <= i}}
        ELSE {cells[k] : k \in least}

findCellsWithLeastCandidates(g) == FirstAfterSort(CollectCells(g))

\* guessAndContinue setting the guess with row and column exchanged.
ChildrenSwapped(g, bestGuess) ==
    {set(copy(g), bestGuess.y, bestGuess.x, cand, FALSE, TRUE) :
        cand \in bestGuess.candidates}

\* guessAndContinue with the guess not written into the copy's square.
ChildrenNoGuess(g, bestGuess) ==
    {set(copy(g), bestGuess.x, bestGuess.y, 0, FALSE, TRUE) :
        cand \in bestGuess.candidates}

\* guessAndContinue leaving out the largest candidate of the best guess.
ChildrenMissingOne(g, bestGuess) ==
    {set(copy(g), bestGuess.x, bestGuess.y, cand, FALSE, TRUE) :
        cand \in {z \in bestGuess.candidates :
                    \E w \in bestGuess.candidates : w > z}}

\* guessAndContinue for a chosen best guess: one copy of g per candidate,
\* with the guess set in it.
Children(g, bestGuess) ==
    {set(copy(g), bestGuess.x, bestGuess.y, cand, FALSE, TRUE) :
        cand \in bestGuess.candidates}

(***************************************************************************)
(* waitforCompletion's helpers                                             *)
(***************************************************************************)
\* solutionExists comparing the games instead of their squares.
solutionExistsWholeGame(sols, newSolution) ==
    \E k \in 1 .. Len(sols) : sols[k] = newSolution

solutionExists(sols, newSolution) ==
    \E k \in 1 .. Len(sols) : sols[k].square = newSolution.square

\* The test of line 147 with > for >=, and with the count off by one.
EnoughSolutionsStrict(sols, min) == Len(sols) > min

EnoughSolutionsEarly(sols, min) == Len(sols) >= min - 1

EnoughSolutions(sols, min) == Len(sols) >= min

\* Lines 166-171: what waitforCompletion returns after its loop.
Return(sols, verbose) ==
    [solutions |-> sols,
     err |-> IF Len(sols) = 0 /\ verbose THEN <<"No solutions found">> ELSE <<>>]

(***************************************************************************)
(* Inputs.  The puzzles are a solved grid with some cells blanked, and for *)
(* the puzzle without a completion one blank filled with a value that is   *)
(* allowed by the other clues but belongs to no completion.                *)
(***************************************************************************)
Base ==
    << <<5, 9, 7, 6, 3, 2, 1, 8, 4>>,
       <<3, 1, 8, 5, 7, 4, 2, 6, 9>>,
       <<6, 4, 2, 1, 8, 9, 3, 5, 7>>,
       <<9, 5, 3, 4, 2, 1, 6, 7, 8>>,
       <<8, 7, 6, 9, 5, 3, 4, 2, 1>>,
       <<4, 2, 1, 8, 6, 7, 5, 9, 3>>,
       <<1, 6, 5, 3, 9, 8, 7, 4, 2>>,
       <<2, 8, 4, 7, 1, 6, 9, 3, 5>>,
       <<7, 3, 9, 2, 4, 5, 8, 1, 6>> >>

\* The rows of Base with the cells of blanks emptied and the cells of
\* changed (triples <<x, y, z>>) given the value z.
PuzzleRows(blanks, changed) ==
    [r \in 1 .. SQUARE_SIZE |->
        [c \in 1 .. SQUARE_SIZE |->
            IF <<r - 1, c - 1>> \in blanks THEN 0
            ELSE IF \E t \in changed : t[1] = r - 1 /\ t[2] = c - 1
              THEN (CHOOSE t \in changed : t[1] = r - 1 /\ t[2] = c - 1)[3]
            ELSE Base[r][c]]]

PComplete == PuzzleRows({}, {})
PUnique == PuzzleRows({<<3, 6>>, <<3, 8>>, <<8, 6>>}, {})
PRect == PuzzleRows({<<2, 0>>, <<2, 8>>, <<8, 0>>, <<8, 8>>}, {})
PTwo == PuzzleRows({<<7, 5>>, <<7, 8>>, <<8, 5>>, <<8, 8>>}, {})
PDeep ==
    PuzzleRows({<<2, 3>>, <<2, 5>>, <<2, 6>>, <<2, 7>>, <<2, 8>>,
                <<6, 3>>, <<6, 6>>, <<6, 7>>,
                <<7, 3>>, <<7, 6>>, <<7, 7>>, <<7, 8>>}, {<<5, 8, 3>>})
PShell ==
    PuzzleRows({<<2, 0>>, <<2, 1>>, <<2, 2>>, <<5, 0>>, <<5, 1>>, <<5, 2>>,
                <<7, 0>>, <<7, 1>>, <<7, 2>>}, {})
PNone == PuzzleRows({<<2, 2>>, <<5, 1>>}, {<<2, 1, 2>>})

\* The text of a row and of a grid in the format Load reads.
Token(v) == IF v = 0 THEN <<"_">> ELSE <<Digits[v + 1]>>

RECURSIVE Join(_, _)
Join(pieces, sep) ==
    IF pieces = <<>> THEN <<>>
    ELSE IF Len(pieces) = 1 THEN pieces[1]
    ELSE pieces[1] \o <<sep>> \o Join(Tail(pieces), sep)

RowText(row) == Join([c \in 1 .. Len(row) |-> Token(row[c])], " ")

GridText(rows) == Join([r \in 1 .. Len(rows) |-> RowText(rows[r])], "\n")

\* The clues of a grid as the steps LoadSteps reads, in row-major order.
GridSteps(rows) ==
    LET all == [k \in 1 .. SQUARE_SIZE * SQUARE_SIZE |->
                  Step((k - 1) \div SQUARE_SIZE, (k - 1) % SQUARE_SIZE,
                       rows[((k - 1) \div SQUARE_SIZE) + 1][((k - 1) % SQUARE_SIZE) + 1],
                       FALSE, FALSE)]
        IsClue(s) == s.Z # 0
    IN  SelectSeq(all, IsClue)

TextInput(text) == [kind |-> "text", text |-> text, steps |-> <<>>]
StepsInput(steps) == [kind |-> "steps", text |-> <<>>, steps |-> steps]

PuzzleInputs ==
    {TextInput(GridText(p)) : p \in {PComplete, PUnique, PRect, PTwo, PDeep, PShell, PNone}}
      \cup {StepsInput(GridSteps(PTwo))}

(***************************************************************************)
(* State                                                                   *)
(***************************************************************************)
VARIABLES
    input,            \* what the caller hands to Load or LoadSteps
    loaded,           \* <<>> before the load, then <<its result>>
    Verbose,          \* the package-level flag
    minSolutionCount, \* Solve's parameter
    run,              \* number of Solve calls made so far
    tasks,            \* the goroutines running solve, finished ones included
    solutionChannel,  \* the content of the buffered channel of this Solve call
    clock,            \* 0: before the deadline, 1: past it, 2: timer fired
    solutions,        \* waitforCompletion's list of accepted solutions
    cpc,              \* where waitforCompletion is
    result,           \* <<>> until Solve returns, then <<what it returned>>
    prev              \* the results of the earlier Solve calls on this root

vars == <<input, loaded, Verbose, minSolutionCount, run, tasks,
          solutionChannel, clock, solutions, cpc, result, prev>>

solverVars == <<minSolutionCount, run, tasks, solutionChannel, clock,
                solutions, cpc, result, prev>>

maxSteps == SQUARE_SIZE * SQUARE_SIZE

InitWith(inputs) ==
    /\ input \in inputs
    /\ loaded = <<>>
    /\ Verbose \in BOOLEAN
    /\ minSolutionCount = 0
    /\ run = 0
    /\ tasks = {}
    /\ solutionChannel = <<>>
    /\ clock = 0
    /\ solutions = <<>>
    /\ cpc = "idle"
    /\ result = <<>>
    /\ prev = <<>>

Init == InitWith(PuzzleInputs)

\* The caller loads the game.
LoadGame ==
    /\ loaded = <<>>
    /\ loaded' = << IF input.kind = "text" THEN Load(input.text)
                    ELSE LoadSteps(input.steps) >>
    /\ UNCHANGED <<input, Verbose, solverVars>>

\* A goroutine running solve(g): its game, its loop counter i, where it is,
\* and the number of sends it has completed.  id is the sequence of guesses
\* that led to it.
Task(id, g) == [id |-> id, g |-> g, i |-> 0, pc |-> "loop", pushes |-> 0]

\* Solve up to the call of waitforCompletion: the channel and the deadline
\* are stored in the game and solve(g) is started.
StartSolve(min) ==
    LET g == [loaded[1].game[1] EXCEPT !.solutionChannel = run + 1,
                                      !.deadline = run + 1]
    IN  /\ minSolutionCount' = min
        /\ run' = run + 1
        /\ tasks' = {Task(<<>>, g)}
        /\ solutionChannel' = <<>>
        /\ clock' = 0
        /\ solutions' = <<>>
        /\ cpc' = "select"
        /\ result' = <<>>

Solve ==
    /\ loaded # <<>>
    /\ loaded[1].err = <<>>
    /\ run = 0
    /\ \E min \in 0 .. MaxWanted : StartSolve(min)
    /\ UNCHANGED <<input, loaded, Verbose, prev>>

\* The goroutines guessAndContinue starts from task t, whose game is g, for
\* the best guess: one per child, named by the guess that made it.
Spawned(t, g, bestGuess) ==
    {Task(Append(t.id, <<bestGuess.x, bestGuess.y,
                         c.square[<<bestGuess.x, bestGuess.y>>]>>), c) :
        c \in Children(g, bestGuess)}

\* guessAndContinue with cpy sharing the square of g: every guess is written
\* into the one square, which ends up holding the last of them.
ForkSharedSquare(t, g, bestGuess) ==
    LET last == CHOOSE z \in bestGuess.candidates :
                    \A w \in bestGuess.candidates : w <= z
        sq == SquareSet(g.square, bestGuess.x, bestGuess.y, last)
    IN  {[t EXCEPT !.g = [g EXCEPT !.square = sq], !.pc = "forked"]}
          \cup {[c EXCEPT !.g.square = sq] : c \in Spawned(t, g, bestGuess)}

\* Lines 208-209: task t, its game being g after the sweep, calls
\* guessAndContinue and returns; the children start.
Fork(t, g, bestGuess) ==
    {[t EXCEPT !.g = g, !.pc = "forked"]} \cup Spawned(t, g, bestGuess)

\* One iteration of the loop of solve(g), up to but not including the send.
Iterate(t) ==
    LET r == step(t.g)
        Update(new) == tasks' = (tasks \ {t}) \cup new
    IN  IF t.i >= maxSteps THEN Update({[t EXCEPT !.pc = "exhausted"]})
        ELSE IF clock >= 1 THEN Update({[t EXCEPT !.pc = "expired"]})
        ELSE IF r.n < 0 THEN Update({[t EXCEPT !.g = r.g, !.pc = "contradicted"]})
        ELSE IF r.n = 0
          THEN LET best == findCellsWithLeastCandidates(r.g)
               IN  IF best = {}
                     THEN Update({[t EXCEPT !.g = r.g, !.pc = "stuck"]})
                   ELSE \E bestGuess \in best : Update(Fork(t, r.g, bestGuess))
        ELSE IF countEmptyValues(r.g) = 0
          THEN Update({[t EXCEPT !.g = r.g, !.pc = "report"]})
        ELSE Update({[t EXCEPT !.g = r.g, !.i = t.i + 1]})

TaskIterate ==
    /\ \E t \in tasks : t.pc = "loop" /\ Iterate(t)
    /\ UNCHANGED <<input, loaded, Verbose, minSolutionCount, run,
                   solutionChannel, clock, solutions, cpc, result, prev>>

\* The send without the return of line 220: the task stays at its send.
TaskSendStays ==
    /\ \E t \in tasks :
         /\ t.pc = "report"
         /\ Len(solutionChannel) < ChanCap
         /\ solutionChannel' = Append(solutionChannel, t.g)
         /\ tasks' = (tasks \ {t}) \cup {[t EXCEPT !.pushes = t.pushes + 1]}
    /\ UNCHANGED <<input, loaded, Verbose, minSolutionCount, run,
                   clock, solutions, cpc, result, prev>>

\* g.solutionChannel <- g: possible while the buffer has room.
TaskSend ==
    /\ \E t \in tasks :
         /\ t.pc = "report"
         /\ Len(solutionChannel) < ChanCap
         /\ solutionChannel' = Append(solutionChannel, t.g)
         /\ tasks' = (tasks \ {t}) \cup {[t EXCEPT !.pc = "solved", !.pushes = t.pushes + 1]}
    /\ UNCHANGED <<input, loaded, Verbose, minSolutionCount, run,
                   clock, solutions, cpc, result, prev>>

\* time.Now() moves past g.deadline.
DeadlinePasses ==
    /\ cpc # "idle"
    /\ clock = 0
    /\ clock' = 1
    /\ UNCHANGED <<input, loaded, Verbose, minSolutionCount, run, tasks,
                   solutionChannel, solutions, cpc, result, prev>>

\* The timer of waitforCompletion, started after the deadline was set and
\* with the same duration, becomes ready.
TimerFires ==
    /\ cpc # "idle"
    /\ clock = 1
    /\ clock' = 2
    /\ UNCHANGED <<input, loaded, Verbose, minSolutionCount, run, tasks,
                   solutionChannel, solutions, cpc, result, prev>>

\* select, case newSolution := <-solutionChannel
Receive ==
    /\ cpc = "select"
    /\ Len(solutionChannel) > 0
    /\ LET newSolution == Head(solutionChannel)
           accepted == IF solutionExists(solutions, newSolution) THEN solutions
                       ELSE Append(solutions, newSolution)
           enough == ~solutionExists(solutions, newSolution)
                        /\ EnoughSolutions(accepted, minSolutionCount)
       IN  /\ solutionChannel' = Tail(solutionChannel)
           /\ solutions' = accepted
           /\ cpc' = IF enough THEN "enough" ELSE "select"
           /\ result' = IF enough THEN <<Return(accepted, Verbose)>> ELSE <<>>
    /\ UNCHANGED <<input, loaded, Verbose, minSolutionCount, run, tasks, clock, prev>>

\* select, case <-timer
Timeout ==
    /\ cpc = "select"
    /\ clock = 2
    /\ cpc' = "timeout"
    /\ result' = <<Return(solutions, Verbose)>>
    /\ UNCHANGED <<input, loaded, Verbose, minSolutionCount, run, tasks,
                   solutionChannel, clock, solutions, prev>>

Next ==
    \/ LoadGame
    \/ Solve
    \/ TaskIterate
    \/ TaskSend
    \/ DeadlinePasses
    \/ TimerFires
    \/ Receive
    \/ Timeout

Spec == Init /\ [][Next]_vars

(***************************************************************************)
(* The same program with the scheduler's guarantee: a goroutine that can   *)
(* take a step of solve takes it, a send for which the channel has room    *)
(* completes, and the select of waitforCompletion takes a case when one is *)
(* ready.  Nothing is assumed of the caller or of the clock.               *)
(***************************************************************************)
\* WF_vars(TaskIterate) with its enabling condition written out: TaskIterate
\* is enabled exactly when some task is in its loop.
FairIterate ==
    <>[](\E t \in tasks : t.pc = "loop") => []<><<TaskIterate>>_vars

SpecLive ==
    Spec /\ FairIterate /\ WF_vars(TaskSend) /\ WF_vars(Receive \/ Timeout)

(***************************************************************************)
(* Two Solve calls in a row on fresh copies of the same loaded game, with  *)
(* the same minSolutionCount.  The goroutines the first call left behind   *)
(* write to the first call's channel only and are no longer followed.      *)
(***************************************************************************)
Finished == {"contradicted", "stuck", "forked", "solved"}

\* The call got all it asked for, or the search ended before the deadline
\* and everything pushed was received before the timer case was taken.
RunClean ==
    \/ cpc = "enough"
    \/ /\ cpc = "timeout"
       /\ \A t \in tasks : t.pc \in Finished
       /\ solutionChannel = <<>>

SolveAgain ==
    /\ run = 1
    /\ result # <<>>
    /\ prev' = Append(prev, [ret |-> result[1], clean |-> RunClean])
    /\ StartSolve(minSolutionCount)
    /\ UNCHANGED <<input, loaded, Verbose>>

InitTwice ==
    InitWith({TextInput(GridText(p)) : p \in {PComplete, PRect, PTwo}})

NextTwice == Next \/ SolveAgain

SpecTwice == InitTwice /\ [][NextTwice]_vars

(***************************************************************************)
(* waitforCompletion on its own, as a caller within the package can run    *)
(* it: the channel it reads is the channel of several loaded games, and    *)
(* solve has been started on each of them.  Every game is solved by        *)
(* sweeps alone; two of them have the same completion, so that the same    *)
(* grid arrives twice, carried by different games.                         *)
(***************************************************************************)
\* Base with two other cells blank (the completion of PUnique again), and
\* the other completion of PTwo with one cell blank.
PUniqueToo == PuzzleRows({<<0, 0>>, <<4, 4>>}, {})

PTwinUnique ==
    PuzzleRows({<<0, 0>>}, {<<7, 5, 5>>, <<7, 8, 6>>, <<8, 5, 6>>, <<8, 8, 5>>})

SenderPuzzles == {PUnique, PUniqueToo, PTwinUnique}

\* A loaded game with the channel and the deadline stored in it, as Solve
\* stores them.
WithChannel(g) == [g EXCEPT !.solutionChannel = 1, !.deadline = 1]

InitCollector ==
    /\ input = TextInput(<<>>)
    /\ loaded = <<>>
    /\ Verbose \in BOOLEAN
    /\ minSolutionCount \in 0 .. MaxWanted
    /\ run = 1
    /\ \E ps \in SUBSET SenderPuzzles :
          tasks = {Task(<<>>, WithChannel(Load(GridText(p)).game[1])) : p \in ps}
    /\ solutionChannel = <<>>
    /\ clock = 0
    /\ solutions = <<>>
    /\ cpc = "select"
    /\ result = <<>>
    /\ prev = <<>>

NextCollector ==
    \/ TaskIterate
    \/ TaskSend
    \/ DeadlinePasses
    \/ TimerFires
    \/ Receive
    \/ Timeout

SpecCollector == InitCollector /\ [][NextCollector]_vars

(***************************************************************************)
(* Solve on a grid with more completions than the channel has slots, taken *)
(* up late in the search.  Every fork has guessed on the cell that         *)
(* sort.Sort of the Go releases 1.6 to 1.18 leaves in front; the releases  *)
(* before and after them order cells of equal count in another way and     *)
(* search another tree over the same completions.  The nodes have run      *)
(* depth by depth, the children of a fork in the order of their guesses;   *)
(* the last node of the last depth has one iteration left.  The solved     *)
(* nodes have sent in the same order, all but the last FloodPending of     *)
(* them, which are at their send; the collector has accepted the first     *)
(* arrivals and the later ones fill the channel.  minSolutionCount is one  *)
(* more than the collector has accepted.                                   *)
(***************************************************************************)
\* The solved nodes that have not sent.
FloodPending == 5

PFlood ==
    PuzzleRows({
        <<0, 0>>, <<0, 4>>, <<0, 5>>, <<0, 8>>,
        <<1, 0>>, <<1, 1>>, <<1, 2>>, <<1, 3>>, <<1, 4>>, <<1, 5>>, <<1, 6>>, <<1, 7>>, <<1, 8>>,
        <<2, 1>>, <<2, 2>>, <<2, 3>>, <<2, 4>>, <<2, 5>>, <<2, 6>>, <<2, 7>>, <<2, 8>>,
        <<3, 3>>, <<3, 4>>, <<3, 5>>, <<3, 7>>, <<3, 8>>,
        <<4, 0>>, <<4, 2>>, <<4, 3>>, <<4, 4>>, <<4, 5>>, <<4, 6>>, <<4, 7>>, <<4, 8>>,
        <<5, 0>>, <<5, 2>>, <<5, 3>>, <<5, 4>>, <<5, 5>>, <<5, 7>>, <<5, 8>>,
        <<6, 0>>, <<6, 1>>, <<6, 3>>, <<6, 4>>, <<6, 5>>, <<6, 7>>,
        <<7, 2>>, <<7, 3>>, <<7, 4>>, <<7, 8>>,
        <<8, 1>>, <<8, 2>>, <<8, 6>>, <<8, 7>>}, {})

(***************************************************************************)
(* sort.Sort as the Go releases 1.6 to 1.18 implement it (package sort,    *)
(* quickSort), on the sequence of collected cells.  Indices are those of   *)
(* the library, from 0.  A loop that hands the sequence on from round to   *)
(* round also asks that its range lies within the sequence, which holds in *)
(* every call: each round then works on the sequence the round before it   *)
(* has produced.                                                           *)
(***************************************************************************)
LessAt(data, i, j) == Less(data[i + 1], data[j + 1])

Swap(data, i, j) == [data EXCEPT ![i + 1] = data[j + 1], ![j + 1] = data[i + 1]]

RECURSIVE insertDown(_, _, _)
insertDown(data, a, j) ==
    IF j > a
      THEN IF LessAt(data, j, j - 1)
             THEN insertDown(Swap(data, j, j - 1), a, j - 1)
           ELSE data
    ELSE data

RECURSIVE insertFrom(_, _, _, _)
insertFrom(data, a, b, i) ==
    IF i < b /\ b <= Len(data)
      THEN insertFrom(insertDown(data, a, i), a, b, i + 1)
    ELSE data

insertionSort(data, a, b) == insertFrom(data, a, b, a + 1)

RECURSIVE siftDown(_, _, _, _)
siftDown(data, lo, hi, first) ==
    LET child == 2 * lo + 1
    IN  IF child >= hi THEN data
        ELSE LET larger == IF child + 1 < hi
                             THEN IF LessAt(data, first + child, first + child + 1)
                                    THEN child + 1
                                  ELSE child
                           ELSE child
             IN  IF ~LessAt(data, first + lo, first + larger) THEN data
                 ELSE siftDown(Swap(data, first + lo, first + larger),
                               larger, hi, first)

RECURSIVE heapBuild(_, _, _, _)
heapBuild(data, i, hi, first) ==
    IF i >= 0 /\ first + hi <= Len(data)
      THEN heapBuild(siftDown(data, i, hi, first), i - 1, hi, first)
    ELSE data

RECURSIVE heapPop(_, _, _)
heapPop(data, i, first) ==
    IF i >= 0 /\ first + i < Len(data)
      THEN heapPop(siftDown(Swap(data, first, first + i), 0, i, first),
                   i - 1, first)
    ELSE data

heapSort(data, a, b) ==
    heapPop(heapBuild(data, (b - a - 1) \div 2, b - a, a), b - a - 1, a)

\* Moves the median of the three to m1.
medianOfThree(data, m1, m0, m2) ==
    LET d1 == IF LessAt(data, m1, m0) THEN Swap(data, m1, m0) ELSE data
    IN  IF LessAt(d1, m2, m1)
          THEN LET d2 == Swap(d1, m2, m1)
               IN  IF LessAt(d2, m1, m0) THEN Swap(d2, m1, m0) ELSE d2
        ELSE d1

\* for ; a < c && data.Less(a, pivot); a++ : the a the loop ends with.
skipLess(data, a, c, pivot) ==
    LET stop == {i \in a .. c - 1 : ~LessAt(data, i, pivot)}
    IN  IF a >= c THEN a
        ELSE IF stop = {} THEN c
        ELSE CHOOSE i \in stop : \A k \in stop : i <= k

\* for ; b < c && !data.Less(pivot, b); b++ : the b the loop ends with.
skipNotGreater(data, b, c, pivot) ==
    LET stop == {i \in b .. c - 1 : LessAt(data, pivot, i)}
    IN  IF b >= c THEN b
        ELSE IF stop = {} THEN c
        ELSE CHOOSE i \in stop : \A k \in stop : i <= k

\* for ; b < c && data.Less(pivot, c-1); c-- : the c the loop ends with.
skipGreater(data, b, c, pivot) ==
    LET stop == {i \in b + 1 .. c : ~LessAt(data, pivot, i - 1)}
    IN  IF b >= c THEN c
        ELSE IF stop = {} THEN b
        ELSE CHOOSE i \in stop : \A k \in stop : i >= k

RECURSIVE partitionLoop(_, _, _, _)
partitionLoop(data, b, c, pivot) ==
    LET b1 == skipNotGreater(data, b, c, pivot)
        c1 == skipGreater(data, b1, c, pivot)
    IN  IF b1 >= c1 THEN [data |-> data, b |-> b1, c |-> c1]
        ELSE partitionLoop(Swap(data, b1, c1 - 1), b1 + 1, c1 - 1, pivot)

\* for ; a < b && !data.Less(b-1, pivot); b-- : the b the loop ends with.
skipEqualDown(data, a, b, pivot) ==
    LET stop == {i \in a + 1 .. b : LessAt(data, i - 1, pivot)}
    IN  IF a >= b THEN b
        ELSE IF stop = {} THEN a
        ELSE CHOOSE i \in stop : \A k \in stop : i >= k

RECURSIVE protectLoop(_, _, _, _)
protectLoop(data, a, b, pivot) ==
    LET b1 == skipEqualDown(data, a, b, pivot)
        a1 == skipLess(data, a, b1, pivot)
    IN  IF a1 >= b1 THEN [data |-> data, b |-> b1]
        ELSE protectLoop(Swap(data, a1, b1 - 1), a1 + 1, b1 - 1, pivot)

\* The median of three, or for more than 40 elements of three medians of
\* three, moved to lo.
pivotChosen(data, lo, hi) ==
    LET m == (lo + hi) \div 2
        s == (hi - lo) \div 8
    IN  medianOfThree(
          IF hi - lo > 40
            THEN medianOfThree(
                   medianOfThree(
                     medianOfThree(data, lo, lo + s, lo + 2 * s),
                     m, m - s, m + s),
                   hi - 1, hi - 1 - s, hi - 1 - 2 * s)
          ELSE data,
          lo, m, hi - 1)

\* The partition around the pivot at lo, from a on: data[lo+1 .. b-1] not
\* greater than the pivot, data[c .. hi-1] greater.
partitionedFrom(data, a, lo, hi) ==
    [a |-> a, dups |-> 0] @@ partitionLoop(data, a, hi - 1, lo)

partitioned(data, lo, hi) ==
    partitionedFrom(data, skipLess(data, lo + 1, hi - 1, lo), lo, hi)

\* The three points tested for equality with the pivot when the upper part
\* is short (far: it has 5 elements or more and less than a quarter).
dupsHigh(p, lo, hi) ==
    IF ~LessAt(p.data, lo, hi - 1)
      THEN [p EXCEPT !.data = Swap(p.data, p.c, hi - 1), !.c = p.c + 1,
                     !.dups = p.dups + 1]
    ELSE p

dupsLow(p, lo, hi) ==
    IF ~LessAt(p.data, p.b - 1, lo)
      THEN [p EXCEPT !.b = p.b - 1, !.dups = p.dups + 1]
    ELSE p

dupsMiddle(p, lo, hi) ==
    IF ~LessAt(p.data, (lo + hi) \div 2, lo)
      THEN [p EXCEPT !.data = Swap(p.data, (lo + hi) \div 2, p.b - 1),
                     !.b = p.b - 1, !.dups = p.dups + 1]
    ELSE p

\* The lower part with the elements equal to the pivot moved to its end,
\* when protect holds.
protected(p, protect, lo) ==
    IF protect THEN protectLoop(p.data, p.a, p.b, lo) @@ p ELSE p

pivotPlaced(p, lo) ==
    [data |-> Swap(p.data, lo, p.b - 1), midlo |-> p.b - 1, midhi |-> p.c]

pivotEnd(p, t, lo, hi) ==
    pivotPlaced(protected(t, hi - p.c < 5 \/ t.dups > 1, lo), lo)

pivotTested(p, lo, hi) ==
    IF hi - p.c >= 5 /\ hi - p.c < (hi - lo) \div 4
      THEN pivotEnd(p, dupsMiddle(dupsLow(dupsHigh(p, lo, hi), lo, hi), lo, hi),
                    lo, hi)
    ELSE pivotEnd(p, p, lo, hi)

doPivot(data, lo, hi) ==
    pivotTested(partitioned(pivotChosen(data, lo, hi), lo, hi), lo, hi)

RECURSIVE shellPass(_, _, _)
\* for i := a + 6; i < b; i++
shellPass(data, i, b) ==
    IF i < b /\ b <= Len(data)
      THEN shellPass(IF LessAt(data, i, i - 6) THEN Swap(data, i, i - 6) ELSE data,
                     i + 1, b)
    ELSE data

RECURSIVE quickSort(_, _, _, _), quickSortParts(_, _, _, _)
quickSort(data, a, b, depth) ==
    IF b - a > 12
      THEN IF depth = 0 THEN heapSort(data, a, b)
           ELSE quickSortParts(doPivot(data, a, b), a, b, depth - 1)
    ELSE IF b - a > 1 THEN insertionSort(shellPass(data, a + 6, b), a, b)
    ELSE data

\* The smaller part first, then the larger.
quickSortParts(p, a, b, depth) ==
    IF p.midlo - a < b - p.midhi
      THEN quickSort(quickSort(p.data, a, p.midlo, depth), p.midhi, b, depth)
    ELSE quickSort(quickSort(p.data, p.midhi, b, depth), a, p.midlo, depth)

RECURSIVE maxDepth(_)
maxDepth(n) == IF n > 0 THEN 2 + maxDepth(n \div 2) ELSE 0

Sort(data) == quickSort(data, 0, Len(data), maxDepth(Len(data)))

\* orderedBestGuesses[0]: the cell in front after the sort.
FirstCell(cells) == Sort(cells)[1]

\* The tasks of a set in the order of the values they guessed last.
ByGuess(ts) ==
    LET z(w) == w.id[Len(w.id)][3]
    IN  [k \in 1 .. Cardinality(ts) |->
            CHOOSE u \in ts : Cardinality({v \in ts : z(v) < z(u)}) = k - 1]

\* The iterations of solve on task t before the one that ends it: the task
\* as that iteration finds it and what step returns in it.
RECURSIVE Iterated(_)
Iterated(t) ==
    LET r == step(t.g)
    IN  IF r.n > 0 /\ countEmptyValues(r.g) # 0
          THEN Iterated([t EXCEPT !.g = r.g, !.i = t.i + 1])
        ELSE [t |-> t, r |-> r]

\* Task t run to its end before the deadline: the task before its last
\* iteration, the task after it, and the tasks it starts, in the order of
\* the candidates of the cell it guesses.
Ended(task) ==
    LET it == Iterated(task)
        t == it.t
        r == it.r
        cells == CollectCells(r.g)
        pc == CASE r.n < 0 -> "contradicted"
                [] r.n = 0 /\ cells = <<>> -> "stuck"
                [] r.n = 0 /\ cells # <<>> -> "forked"
                [] OTHER -> "report"
    IN  [before |-> t,
         after |-> [t EXCEPT !.g = r.g, !.pc = pc],
         kids |-> IF pc = "forked"
                    THEN ByGuess(Spawned(t, r.g, FirstCell(cells)))
                  ELSE <<>>]

\* The sequences ss[lo] .. ss[hi] one after the other.
RECURSIVE Concat(_, _, _)
Concat(ss, lo, hi) ==
    IF lo > hi THEN <<>>
    ELSE IF lo = hi THEN ss[lo]
    ELSE Concat(ss, lo, (lo + hi) \div 2)
           \o Concat(ss, (lo + hi) \div 2 + 1, hi)

\* The tasks that come of the tasks of one depth of the search when all of
\* them and their descendants run to their ends before the deadline, depth
\* by depth; the last task of the last depth is left as it is before the
\* iteration that ends it.
RECURSIVE Searched(_)
Searched(level) ==
    IF level = <<>> THEN <<>>
    ELSE LET n == Len(level)
             ended == [k \in 1 .. n |-> Ended(level[k])] \o <<>>
             next == Concat([k \in 1 .. n |-> ended[k].kids], 1, n)
         IN  IF next = <<>>
               THEN [k \in 1 .. n |->
                       IF k = n THEN ended[k].before ELSE ended[k].after]
             ELSE [k \in 1 .. n |-> ended[k].after] \o Searched(next)

FloodLoaded == Load(GridText(PFlood))

InitFlood ==
    \E root \in {FloodLoaded} :
    \E all \in {Searched(<<Task(<<>>, WithChannel(root.game[1]))>>)} :
    \E atSend \in {SelectSeq(all, LAMBDA t : t.pc = "report")} :
        LET sent == Len(atSend) - FloodPending
            accepted == sent - ChanCap
        IN  /\ input = TextInput(GridText(PFlood))
            /\ loaded = <<root>>
            /\ Verbose \in BOOLEAN
            /\ minSolutionCount = accepted + 1
            /\ run = 1
            /\ tasks = {all[k] : k \in {j \in 1 .. Len(all) : all[j].pc # "report"}}
                          \cup {[atSend[k] EXCEPT !.pc = "solved", !.pushes = 1] :
                                   k \in 1 .. sent}
                          \cup {atSend[k] : k \in sent + 1 .. Len(atSend)}
            /\ solutionChannel =
                   [k \in 1 .. sent - accepted |-> atSend[accepted + k].g]
            /\ clock = 0
            /\ solutions = [k \in 1 .. accepted |-> atSend[k].g]
            /\ cpc = "select"
            /\ result = <<>>
            /\ prev = <<>>

NextFlood ==
    \/ Receive
    \/ Timeout
    \/ TaskSend
    \/ TaskIterate
    \/ DeadlinePasses
    \/ TimerFires

SpecFlood == InitFlood /\ [][NextFlood]_vars

(***************************************************************************)
(* Load on its own, on texts whose shape is varied: the number of rows, an *)
(* empty line in place of a row, a row with too few or too many columns,   *)
(* a newline after the last row.                                           *)
(***************************************************************************)
MaxRows == 11

\* Row k of the text: the k-th row of PTwo, or a row of blanks after it.
ShapeRow(k, emptyAt, badRow, badCols) ==
    LET cols == IF k = badRow THEN badCols ELSE SQUARE_SIZE
        row == [c \in 1 .. cols |->
                  IF k <= SQUARE_SIZE /\ c <= SQUARE_SIZE THEN PTwo[k][c] ELSE 0]
    IN  IF k = emptyAt THEN <<>> ELSE RowText(row)

ShapeText(n, emptyAt, badRow, badCols, newline) ==
    Join([k \in 1 .. n |-> ShapeRow(k, emptyAt, badRow, badCols)], "\n")
      \o (IF newline THEN <<"\n">> ELSE <<>>)

\* emptyAt = 0 and badRow = 0 stand for "no such row".
LoadInputs ==
    {TextInput(ShapeText(n, emptyAt, badRow, badCols, newline)) :
        n \in 0 .. MaxRows, emptyAt \in 0 .. MaxRows, badRow \in 0 .. MaxRows,
        badCols \in {SQUARE_SIZE - 1, SQUARE_SIZE + 1}, newline \in BOOLEAN}

InitLoad == InitWith(LoadInputs)

NextLoad == LoadGame

SpecLoad == InitLoad /\ [][NextLoad]_vars

(***************************************************************************)
(* Game.step on its own: a loaded game is swept again and again for as     *)
(* long as the sweep before placed a value.  The games are the solved grid *)
(* with up to MaxBlanks cells of a pool blanked, as it is or with one clue *)
(* altered.  prev keeps the game each sweep started from, result what the  *)
(* last sweep returned.                                                    *)
(***************************************************************************)
MaxBlanks == 3

StepPool ==
    {<<3, 6>>, <<3, 8>>, <<8, 6>>, <<8, 8>>, <<2, 2>>, <<5, 1>>, <<2, 0>>, <<7, 5>>}

StepInputs ==
    {TextInput(GridText(PuzzleRows(blanks, changed))) :
        blanks \in {b \in SUBSET StepPool : Cardinality(b) <= MaxBlanks},
        changed \in {{}, {<<2, 1, 2>>}}}

InitStep == InitWith(StepInputs)

Sweep ==
    /\ loaded # <<>>
    /\ loaded[1].err = <<>>
    /\ IF result = <<>> THEN TRUE ELSE result[1].n > 0
    /\ LET g == IF result = <<>> THEN loaded[1].game[1] ELSE result[1].g
       IN  /\ result' = <<step(g)>>
           /\ prev' = Append(prev, g)
    /\ UNCHANGED <<input, loaded, Verbose, minSolutionCount, run, tasks,
                   solutionChannel, clock, solutions, cpc>>

NextStep == LoadGame \/ Sweep

SpecStep == InitStep /\ [][NextStep]_vars

(***************************************************************************)
(* Properties                                                              *)
(***************************************************************************)
Root == loaded[1].game[1]

Started == run > 0

Returned == result # <<>>

\* Every row, column and 3x3 block of sq holds each of 1..9 exactly once.
ValidGrid(sq) ==
    /\ \A x \in Idx : {sq[<<x, y>>] : y \in Idx} = Values
    /\ \A y \in Idx : {sq[<<x, y>>] : x \in Idx} = Values
    /\ \A bx \in 0 .. 2, by \in 0 .. 2 :
         {sq[<<3 * bx + r, 3 * by + c>>] : r \in 0 .. 2, c \in 0 .. 2} = Values

\* The games that have left a search task: in the channel, accepted, returned.
Reported ==
    {solutionChannel[k] : k \in 1 .. Len(solutionChannel)}
      \cup {solutions[k] : k \in 1 .. Len(solutions)}
      \cup (IF Returned
              THEN {result[1].solutions[k] : k \in 1 .. Len(result[1].solutions)}
              ELSE {})

\* C1: every grid Solve returns (and every grid accepted or pushed on the
\* way) is completely filled and has each of 1..9 exactly once in every
\* row, column and 3x3 block.
C1_SolutionsValid == \A g \in Reported : ValidGrid(g.square)

\* A Solve call that forked has returned two grids.
C1_Witness ==
    /\ Returned
    /\ Len(result[1].solutions) = 2
    /\ \E t \in tasks : t.pc = "forked"

\* Cell c keeps in to the value it has in from, if it has one there.
Keeps(from, to) == \A c \in Cells : from[c] # 0 => to[c] = from[c]

\* C2: every clue of the root keeps its value in the grid of every search
\* node and of every solution, and no step of a task changes a cell of its
\* grid that already holds a value.
C2_CluesKept ==
    /\ [](Started => /\ \A t \in tasks : Keeps(Root.square, t.g.square)
                     /\ \A g \in Reported : Keeps(Root.square, g.square))
    /\ [][\A t \in tasks \ tasks' : \A u \in tasks' \ tasks :
             u.id = t.id => Keeps(t.g.square, u.g.square)]_vars

\* A node two guesses below a root with clues has reported a solution.
C2_Witness ==
    /\ Started
    /\ \E t \in tasks : t.pc = "solved" /\ Len(t.id) = 2
    /\ Len(solutions) >= 1

Squares(sols) == [k \in 1 .. Len(sols) |-> sols[k].square]

SquareSet_(sols) == {sols[k].square : k \in 1 .. Len(sols)}

\* C3: the accepted solutions are pairwise distinct by grid content, and an
\* arrival whose grid equals an accepted one leaves the accepted list as it
\* was.
C3_AcceptedDistinct ==
    /\ [](\A i, j \in 1 .. Len(solutions) :
            i # j => solutions[i].square # solutions[j].square)
    /\ [][(/\ cpc = "select"
           /\ solutionChannel # <<>>
           /\ solutionChannel' = Tail(solutionChannel)
           /\ Head(solutionChannel).square \in SquareSet_(solutions))
          => solutions' = solutions]_vars

\* A game is about to arrive whose grid is already accepted, carried by
\* another game.
C3_Witness ==
    /\ cpc = "select"
    /\ Len(solutions) = 1
    /\ solutionChannel # <<>>
    /\ Head(solutionChannel).square = solutions[1].square
    /\ Head(solutionChannel) # solutions[1]

\* C4 as stated: in addition to the bounds on the returned list, no arrival
\* is accepted once the timer has fired.
C4_NothingAcceptedAfterTimerFires ==
    [][clock = 2 => solutions' = solutions]_vars

\* C4 amended: for minSolutionCount >= 1 the collector waits exactly while
\* it has fewer than minSolutionCount accepted solutions and has not taken
\* the timer case; it returns at most minSolutionCount entries, fewer only
\* through the timer case (which needs the timer to have fired), and once it
\* has stopped nothing changes the accepted list.
C4_StopsWhenEnoughOrTimerTaken ==
    /\ []((Started /\ minSolutionCount >= 1) =>
            /\ Len(solutions) <= minSolutionCount
            /\ cpc = "select" => (Len(solutions) < minSolutionCount /\ ~Returned)
            /\ cpc = "enough" => Len(solutions) = minSolutionCount
            /\ cpc = "timeout" => clock = 2
            /\ cpc \in {"enough", "timeout"} =>
                 (Returned /\ result[1].solutions = solutions))
    /\ [][(cpc \in {"enough", "timeout"}) => (solutions' = solutions)]_vars

\* The collector took the timer case with one of two wanted solutions.
C4_Witness ==
    /\ cpc = "timeout"
    /\ minSolutionCount = 2
    /\ Len(solutions) = 1

\* C5: Solve returns an error exactly when it returns no solution.
C5_NoSolutionIsAnError ==
    Returned => (Len(result[1].solutions) = 0 <=> result[1].err # <<>>)

\* C6: no search task is waiting to send on a full channel, in particular
\* not after the collector has stopped reading.
C6_SendNeverBlocks ==
    ~ \E t \in tasks :
        /\ t.pc = "report"
        /\ Len(solutionChannel) >= ChanCap
        /\ cpc \in {"enough", "timeout"}

\* The cells that share a row, a column or a block with c.
Peers(c) ==
    {d \in Cells : d # c /\ (\/ d[1] = c[1]
                             \/ d[2] = c[2]
                             \/ (d[1] \div 3 = c[1] \div 3 /\ d[2] \div 3 = c[2] \div 3))}

\* The valid completions of a grid, by filling its first empty cell in
\* every way its peers allow.
RECURSIVE CompletionsOf(_)
CompletionsOf(sq) ==
    LET empties == {c \in Cells : sq[c] = 0}
        first == CHOOSE c \in empties :
                    \A d \in empties : 9 * c[1] + c[2] <= 9 * d[1] + d[2]
        free == Values \ {sq[d] : d \in Peers(first)}
    IN  IF empties = {} THEN (IF ValidGrid(sq) THEN {sq} ELSE {})
        ELSE UNION {CompletionsOf([sq EXCEPT ![first] = v]) : v \in free}

\* C7: for a root with exactly one valid completion and a search that ends
\* before the deadline (everything pushed being received before the timer
\* case is taken), Solve with minSolutionCount 1 returns that completion
\* alone on reaching the count, and with minSolutionCount 2 it returns that
\* completion alone, without error, through the timer case.
C7_UniqueCompletionReturned ==
    (/\ Returned
     /\ minSolutionCount \in {1, 2}
     /\ RunClean
     /\ Cardinality(CompletionsOf(Root.square)) = 1)
    => /\ SquareSet_(result[1].solutions) = CompletionsOf(Root.square)
       /\ Len(result[1].solutions) = 1
       /\ result[1].err = <<>>
       /\ cpc = (IF minSolutionCount = 1 THEN "enough" ELSE "timeout")

\* C8 as stated: two Solve calls on fresh copies of the same root return
\* the same set of grids.
C8_SameSetAlways ==
    (run = 2 /\ Returned)
      => SquareSet_(result[1].solutions) = SquareSet_(prev[1].ret.solutions)

\* C8 amended: the two calls return the same set of grids when the root has
\* at most minSolutionCount valid completions and each call either reached
\* minSolutionCount or had its search end before the deadline with every
\* pushed grid received before the timer case was taken.
C8_SameSetWhenAllCollected ==
    (/\ run = 2
     /\ Returned
     /\ RunClean
     /\ prev[1].clean
     /\ Cardinality(CompletionsOf(Root.square)) <= minSolutionCount)
    => SquareSet_(result[1].solutions) = SquareSet_(prev[1].ret.solutions)

\* Both calls returned the two completions of the root, the second call
\* accepting them in the other order.
C8_Witness ==
    /\ run = 2
    /\ Returned
    /\ RunClean
    /\ prev[1].clean
    /\ minSolutionCount = 2
    /\ Len(result[1].solutions) = 2
    /\ Squares(result[1].solutions) # Squares(prev[1].ret.solutions)

\* The rows of a text: its lines up to the last one that is not empty.
Rows(text) ==
    LET p == Split(text, "\n")
        filled == {k \in 1 .. Len(p) : p[k] # <<>>}
    IN  IF filled = {} THEN <<>>
        ELSE SubSeq(p, 1, CHOOSE k \in filled : \A j \in filled : j <= k)

Columns(row) == Len(Split(row, " "))

\* The rows among the first nine that are missing, empty or not nine
\* columns wide.
BadRows(rows) ==
    {k \in 1 .. SQUARE_SIZE : k > Len(rows) \/ Columns(rows[k]) # SQUARE_SIZE}

\* The error names row k: a row of the wrong width by its 1-based index, a
\* missing or empty row by the number of rows before it.
NamesRow(rows, k, e) ==
    IF k > Len(rows) \/ rows[k] = <<>>
      THEN e.kind = "Not enough rows" /\ e.actual = k - 1
    ELSE /\ e.kind = "Invalid number of columns"
         /\ e.row = k
         /\ e.actual = Columns(rows[k])

WrongShape(rows) ==
    \/ Len(rows) # SQUARE_SIZE
    \/ \E k \in 1 .. Len(rows) : Columns(rows[k]) # SQUARE_SIZE

\* C9 as stated: every text that does not have exactly nine rows of exactly
\* nine columns each is refused with an error, and without a game.
C9_EveryWrongShapeRefused ==
    (loaded # <<>> /\ WrongShape(Rows(input.text)))
      => (loaded[1].err # <<>> /\ loaded[1].game = <<>>)

\* What Load does with the shape of a text (C9): it looks at the first nine
\* lines only.  It refuses the text, returning no game, exactly when one of
\* them is missing, empty or not nine columns wide, and the error names the
\* first such row; lines after the ninth are ignored.  (The cells of the
\* texts are all valid.)
C9_FirstNineRowsDecide ==
    loaded # <<>> =>
        LET rows == Rows(input.text)
            bad == BadRows(rows)
        IN  IF bad = {}
              THEN loaded[1].err = <<>> /\ Len(loaded[1].game) = 1
            ELSE /\ loaded[1].game = <<>>
                 /\ Len(loaded[1].err) = 1
                 /\ NamesRow(rows, CHOOSE k \in bad : \A j \in bad : k <= j,
                             loaded[1].err[1])

\* A text of eleven rows is refused for the width of its ninth row.
C9_Witness ==
    /\ loaded # <<>>
    /\ loaded[1].err # <<>>
    /\ loaded[1].err[1].kind = "Invalid number of columns"
    /\ loaded[1].err[1].row = 9
    /\ Len(Rows(input.text)) = 11

\* C10: a search node that has ended with a completely filled, consistent
\* grid, other than by finding the deadline passed, has pushed itself onto
\* the channel exactly once; no node pushes more than once.
C10_CompleteNodeReportsOnce ==
    \A t \in tasks :
        /\ t.pushes <= 1
        /\ (t.pc \in (Finished \cup {"exhausted"}) /\ ValidGrid(t.g.square))
             => (t.pc = "solved" /\ t.pushes = 1)

\* C11: a node that finds the deadline passed at the top of an iteration
\* ends there: its game is left as it was (no sweep, no value placed), no
\* task is added, nothing is sent, and it never acts again; the deadline of
\* every node is the deadline Solve stored in the root.
C11_DeadlineStopsNode ==
    /\ [](\A t \in tasks : /\ t.g.deadline = run
                           /\ (t.pc = "expired" => t.pushes = 0))
    /\ [][\A t \in tasks :
            /\ (t.pc = "loop" /\ t.i < maxSteps /\ clock >= 1 /\ t \notin tasks')
                 => (/\ tasks' = (tasks \ {t}) \cup {[t EXCEPT !.pc = "expired"]}
                     /\ solutionChannel' = solutionChannel)
            /\ (t.pc = "expired" /\ run' = run) => (t \in tasks')]_vars

\* A child has expired, and so has a node that had completed a sweep before.
C11_Witness ==
    /\ \E t \in tasks : t.pc = "expired" /\ Len(t.id) >= 1
    /\ \E t \in tasks : t.pc = "expired" /\ t.i >= 1

\* The grid of g holds exactly what the provenance of g says was placed.
OwnPlacementsOnly(g) ==
    /\ \A k \in 1 .. Len(g.Steps) :
         g.square[<<g.Steps[k].X, g.Steps[k].Y>>] = g.Steps[k].Z
    /\ \A c \in Cells :
         g.square[c] # 0 => \E k \in 1 .. Len(g.Steps) :
                               <<g.Steps[k].X, g.Steps[k].Y>> = c

\* to is from after some placements of its own that were not guesses.
OwnProgress(from, to) ==
    /\ Len(to.Steps) >= Len(from.Steps)
    /\ SubSeq(to.Steps, 1, Len(from.Steps)) = from.Steps
    /\ to.GuessCount = from.GuessCount
    /\ \A c \in Cells :
         to.square[c] # from.square[c]
            => \E k \in (Len(from.Steps) + 1) .. Len(to.Steps) :
                  <<to.Steps[k].X, to.Steps[k].Y>> = c

\* C12: a step of one node leaves every other node as it was; the node's own
\* grid, provenance and guess count change by its own placements only, and
\* every node's grid holds what its own provenance records and nothing
\* else; a node that ends contradicted or expired has pushed nothing and its
\* last step changes neither another node nor the channel nor the accepted
\* list.
C12_NodesIsolated ==
    /\ [](\A t \in tasks : t.pc \in {"contradicted", "expired"} => t.pushes = 0)
    /\ [][\A u \in tasks' \ tasks :
            OwnPlacementsOnly(u.g) /\ u.g.GuessCount = Len(u.id)]_vars
    /\ [][(run' = run) =>
            \A t \in tasks \ tasks' :
               /\ (tasks \ {t}) \subseteq tasks'
               /\ \E u \in tasks' \ tasks :
                     /\ u.id = t.id
                     /\ OwnProgress(t.g, u.g)
                     /\ u.pc \in {"contradicted", "expired"}
                          => (/\ tasks' = (tasks \ {t}) \cup {u}
                              /\ solutionChannel' = solutionChannel
                              /\ solutions' = solutions
                              /\ result' = result)
               /\ \A u \in tasks' \ tasks :
                     u.id # t.id => (/\ Len(u.id) = Len(t.id) + 1
                                     /\ SubSeq(u.id, 1, Len(t.id)) = t.id)]_vars

\* Below one fork, one child has ended in contradiction while its sibling
\* has forked and a node below the sibling has completed its grid; the
\* parent's grid still has the guessed cell empty.
C12_Witness ==
    \E p \in tasks : \E t \in tasks : \E u \in tasks : \E v \in tasks :
       /\ p.pc = "forked"
       /\ Len(t.id) = Len(p.id) + 1 /\ SubSeq(t.id, 1, Len(p.id)) = p.id
       /\ Len(u.id) = Len(p.id) + 1 /\ SubSeq(u.id, 1, Len(p.id)) = p.id
       /\ Len(v.id) = Len(u.id) + 1 /\ SubSeq(v.id, 1, Len(u.id)) = u.id
       /\ t.pc = "contradicted"
       /\ u.pc = "forked"
       /\ v.pc = "solved"
       /\ Len(v.g.Steps) > Len(u.g.Steps) + 1
       /\ p.g.square[<<u.id[Len(u.id)][1], u.id[Len(u.id)][2]>>] = 0

\* The empty cells of g with two or more candidates.
OpenCells(g) ==
    {c \in Cells : /\ ~Has(g.square, c[1], c[2])
                   /\ Cardinality(GameFindCandidates(g, c[1], c[2])) >= 2}

\* C13: a node whose sweep fixed no cell and that has an empty cell with two
\* or more candidates forks: for one cell, one child per candidate of that
\* cell, the child's grid being the parent's grid with that cell set to the
\* candidate, on the parent's channel; the parent's game is as it was before
\* the sweep, and after the fork the parent never acts again and has pushed
\* nothing.
C13_ForkOnePerCandidate ==
    /\ [](\A t \in tasks : t.pc = "forked" => t.pushes = 0)
    /\ [][(run' = run) =>
            \A t \in tasks \ tasks' : \A p \in tasks' \ tasks :
               (p.id = t.id) =>
                  /\ (t.pc = "loop" /\ clock = 0 /\ step(t.g).n = 0
                        /\ OpenCells(t.g) # {}) => (p.pc = "forked")
                  /\ (p.pc = "forked") =>
                       LET kids == (tasks' \ tasks) \ {p}
                       IN  /\ p.g = t.g
                           /\ \E c \in OpenCells(p.g) :
                                LET cand == GameFindCandidates(p.g, c[1], c[2])
                                IN  /\ Cardinality(kids) = Cardinality(cand)
                                    /\ {k.g.square : k \in kids} =
                                         {SquareSet(p.g.square, c[1], c[2], z) :
                                             z \in cand}
                           /\ \A k \in kids :
                                /\ k.g.solutionChannel = p.g.solutionChannel
                                /\ k.pc = "loop" /\ k.i = 0 /\ k.pushes = 0]_vars
    /\ [][\A t \in tasks : (t.pc = "forked" /\ run' = run) => (t \in tasks')]_vars

\* A node has forked into two children after sweeps that placed values, and
\* one of its children has forked in turn.
C13_Witness ==
    \E p \in tasks : \E k \in tasks :
       /\ p.pc = "forked" /\ p.i >= 1
       /\ Len(k.id) = Len(p.id) + 1 /\ SubSeq(k.id, 1, Len(p.id)) = p.id
       /\ k.pc = "forked"

\* k is a child of p: its name is p's name and one guess more.
ChildOf(k, p) ==
    Len(k.id) = Len(p.id) + 1 /\ SubSeq(k.id, 1, Len(p.id)) = p.id

\* C14: the provenance of a child starts with the provenance its parent had
\* at the fork, record for record with both flags, followed by one record
\* for the guessed cell marked not initial, is guess.
C14_ChildProvenanceKeepsFlags ==
    \A p \in tasks : \A k \in tasks :
       (p.pc = "forked" /\ ChildOf(k, p)) =>
          LET n == Len(p.g.Steps)
              guess == k.id[Len(k.id)]
          IN  /\ Len(k.g.Steps) >= n + 1
              /\ SubSeq(k.g.Steps, 1, n) = p.g.Steps
              /\ k.g.Steps[n + 1] = Step(guess[1], guess[2], guess[3], FALSE, TRUE)

\* The place of cell c in the row-major scan.
ScanOrder(c) == c[1] * SQUARE_SIZE + c[2]

\* C15: the cell a node has branched on is an empty cell with two or more
\* candidates that has the least number of candidates of all such cells of
\* the node's grid and, among the cells with that number, comes first in
\* the row-major scan.
C15_BranchOnFirstLeastCell ==
    \A p \in tasks : \A k \in tasks :
       (p.pc = "forked" /\ ChildOf(k, p)) =>
          LET c == <<k.id[Len(k.id)][1], k.id[Len(k.id)][2]>>
              count(d) == Cardinality(GameFindCandidates(p.g, d[1], d[2]))
          IN  /\ c \in OpenCells(p.g)
              /\ \A d \in OpenCells(p.g) :
                   /\ count(c) <= count(d)
                   /\ (count(d) = count(c)) => (ScanOrder(c) <= ScanOrder(d))

\* C16: in every node, and in every game pushed, accepted or returned, the
\* field CellsToBeSolved is the number of empty cells of the game's grid; it
\* is 0 in every returned solution.
C16_CellsToBeSolvedIsEmptyCount ==
    /\ \A t \in tasks : t.g.CellsToBeSolved = countEmptyValues(t.g)
    /\ \A g \in Reported : g.CellsToBeSolved = 0

\* What one sweep over g must have done when it left the game h and
\* returned n.  placed are the provenance records the sweep appended; the
\* grid the sweep saw at cell c is g's grid with the records placed at cells
\* before c in the scan.
SweptAsSpecified(g, h, n) ==
    LET placed == SubSeq(h.Steps, Len(g.Steps) + 1, Len(h.Steps))
        At(r) == <<r.X, r.Y>>
        empty == {c \in Cells : ~Has(g.square, c[1], c[2])}
        Seen(c) == [d \in Cells |->
                      IF \E k \in 1 .. Len(placed) :
                           At(placed[k]) = d /\ ScanOrder(d) < ScanOrder(c)
                        THEN (CHOOSE r \in {placed[k] : k \in 1 .. Len(placed)} :
                                 At(r) = d).Z
                      ELSE g.square[d]]
        cand(c) == GameFindCandidates([g EXCEPT !.square = Seen(c)], c[1], c[2])
        dead == {c \in empty : cand(c) = {}}
        stop == IF n < 0
                  THEN ScanOrder(CHOOSE c \in dead :
                                    \A d \in dead : ScanOrder(c) <= ScanOrder(d))
                ELSE SQUARE_SIZE * SQUARE_SIZE
    IN  /\ Len(h.Steps) >= Len(g.Steps)
        /\ h = [g EXCEPT !.Steps = g.Steps \o placed,
                         !.square = [d \in Cells |->
                                       IF \E k \in 1 .. Len(placed) : At(placed[k]) = d
                                         THEN (CHOOSE r \in {placed[k] : k \in 1 .. Len(placed)} :
                                                  At(r) = d).Z
                                       ELSE g.square[d]]]
        /\ \A k \in 1 .. Len(placed) :
              /\ At(placed[k]) \in empty
              /\ cand(At(placed[k])) = {placed[k].Z}
              /\ placed[k].Initial = FALSE /\ placed[k].IsGuess = FALSE
              /\ ScanOrder(At(placed[k])) < stop
              /\ k > 1 => ScanOrder(At(placed[k - 1])) < ScanOrder(At(placed[k]))
        /\ \A c \in empty :
              (ScanOrder(c) < stop) =>
                 /\ cand(c) # {}
                 /\ (Cardinality(cand(c)) = 1) =>
                       (\E k \in 1 .. Len(placed) : At(placed[k]) = c)
                 /\ (Cardinality(cand(c)) >= 2) => (h.square[c] = 0)
        /\ IF dead = {} THEN n = Len(placed) ELSE n = -1

\* C17: every sweep does what SweptAsSpecified says: cells are judged in
\* row-major order against the grid as updated earlier in the sweep; the
\* sweep returns -1 at the first empty cell without candidates and touches
\* nothing after it; a cell with one candidate is set to it with a record
\* marked not initial, not guess; a cell with more candidates is left
\* empty; otherwise the number of cells set is returned.
C17_SweepAsSpecified ==
    (result # <<>>) => SweptAsSpecified(prev[Len(prev)], result[1].g, result[1].n)

\* A sweep has set two or more cells, one of which had two candidates when
\* the sweep began.
C17_Witness ==
    /\ result # <<>>
    /\ result[1].n >= 2
    /\ LET g == prev[Len(prev)]
           h == result[1].g
       IN  \E k \in (Len(g.Steps) + 1) .. Len(h.Steps) :
              Cardinality(GameFindCandidates(g, h.Steps[k].X, h.Steps[k].Y)) >= 2

\* No task is running: every task has left its loop, and a task that is at
\* its send finds the channel full.
Quiet ==
    \A t \in tasks :
       \/ t.pc \in {"expired", "contradicted", "forked", "stuck", "solved"}
       \/ t.pc = "report" /\ Len(solutionChannel) >= ChanCap

\* C18: a task never starts an 82nd sweep and never leaves its loop by
\* exhausting the bound; it leaves it expired, contradicted, through
\* guessAndContinue (forked, or stuck when there was no cell to fork on) or
\* at its send; every child has fewer empty cells than its parent; and once
\* Solve has started, the search reaches a state where no task is running.
C18_EveryTaskTerminates ==
    /\ [](\A t \in tasks :
            /\ t.i < maxSteps
            /\ t.pc \in {"loop", "expired", "contradicted", "forked", "stuck",
                         "report", "solved"})
    /\ [][\A k \in tasks' \ tasks : \A t \in tasks' \ tasks :
            ChildOf(k, t) => countEmptyValues(k.g) < countEmptyValues(t.g)]_vars
    /\ (Started ~> Quiet)

\* The search has ended, two guesses deep, with tasks forked, contradicted
\* and solved.
C18_Witness ==
    /\ Started
    /\ Quiet
    /\ \E t \in tasks : t.pc = "forked" /\ Len(t.id) = 1
    /\ \E t \in tasks : t.pc = "contradicted"
    /\ \E t \in tasks : t.pc = "solved" /\ Len(t.id) = 2
    /\ \A t \in tasks : t.pc # "expired"

\* C19: within one Solve call every task pushes at most once, the tasks
\* that push carry pairwise different grids, there are no more of them than
\* the root grid has valid completions, and no arrival the collector takes
\* from the channel is discarded as a duplicate.
C19_PushesDistinct ==
    /\ [](LET senders == {t \in tasks : t.pc \in {"report", "solved"}}
          IN  /\ \A t \in tasks : t.pushes <= 1
              /\ \A t \in tasks : (t.pushes = 1) <=> (t.pc = "solved")
              /\ \A t \in senders : \A u \in senders :
                    (t # u) => (t.g.square # u.g.square))
    /\ [][\A u \in tasks' \ tasks :
            (u.pc = "report") =>
               Cardinality({t \in tasks' : t.pc \in {"report", "solved"}})
                  <= Cardinality(CompletionsOf(Root.square))]_vars
    /\ [][(cpc = "select" /\ solutionChannel # <<>>
             /\ solutionChannel' = Tail(solutionChannel))
            => (/\ ~solutionExists(solutions, Head(solutionChannel))
                /\ solutions' = Append(solutions, Head(solutionChannel)))]_vars

\* Two tasks, one of them two guesses deep, have pushed and both pushes
\* have been accepted.
C19_Witness ==
    /\ Len(solutions) = 2
    /\ \E t \in tasks : \E u \in tasks :
          /\ t.pc = "solved" /\ u.pc = "solved"
          /\ t.id # u.id
          /\ Len(t.id) = 2

\* Every valid completion of the root grid has been pushed by some task.
AllPushed ==
    /\ Started
    /\ \A t \in tasks : t.pc # "loop"
    /\ CompletionsOf(Root.square)
          \subseteq {t.g.square : t \in {u \in tasks : u.pushes = 1}}

\* A push is blocked for good: the channel is full and nobody reads it.
PushBlocked ==
    \E t \in tasks : /\ t.pc = "report"
                     /\ Len(solutionChannel) >= ChanCap
                     /\ cpc \in {"enough", "timeout"}

\* Solve has started and no task is in its loop or at its send.
Settled == Started /\ \A t \in tasks : t.pc \notin {"loop", "report"}

\* C20: a step of a node that did not find the deadline passed keeps the
\* valid completions of its grid: a sweep that places values keeps them
\* all, a contradicted node had none, and the children of a fork have
\* between them exactly the completions of the parent.  So, for a root with
\* an empty cell, once Solve has started the search eventually settles,
\* unless a node finds the deadline passed or a push is blocked for good,
\* and when it has settled with no node expired every valid completion of
\* the root grid has been pushed.
C20_SearchComplete ==
    /\ [][(run' = run) =>
            \A t \in tasks \ tasks' : \A u \in tasks' \ tasks :
               (u.id = t.id /\ t.pc = "loop" /\ u.pc # "expired"
                  /\ countEmptyValues(Root) > 0) =>
                  LET before == CompletionsOf(t.g.square)
                      kids == (tasks' \ tasks) \ {u}
                  IN  /\ (u.pc = "contradicted") => (before = {})
                      /\ (u.pc = "forked") =>
                            (before = UNION {CompletionsOf(k.g.square) : k \in kids})
                      /\ (u.pc \in {"loop", "report"}) =>
                            (before = CompletionsOf(u.g.square))]_vars
    /\ []((Settled /\ countEmptyValues(Root) > 0
               /\ \A t \in tasks : t.pc # "expired") => AllPushed)
    /\ ((Started /\ countEmptyValues(Root) > 0)
           ~> (Settled \/ PushBlocked \/ \E t \in tasks : t.pc = "expired"))

\* Every completion of a root with two completions has been pushed, by
\* tasks two guesses deep, after another branch was discarded as
\* contradicted; no node has found the deadline passed.
C20_Witness ==
    /\ Started
    /\ \E t \in tasks : t.pc = "contradicted"
    /\ \E t \in tasks : t.pc = "solved" /\ Len(t.id) = 2
    /\ \A t \in tasks : t.pc \notin {"expired", "loop", "report"}
    /\ countEmptyValues(Root) > 0
    /\ Cardinality(CompletionsOf(Root.square)) = 2
    /\ AllPushed

====
